---- MODULE Spec2Model ----
(***************************************************************************)
(* Model of the model-loader builder of dataclass_factory_30:             *)
(*   provider/model/loader_provider.py                                     *)
(*     BuiltinInputExtractionMaker (__call__, _process_figure,             *)
(*     _validate_params, _create_extraction_gen), make_input_creation,     *)
(*     ModelLoaderProvider._provide_loader.                                *)
(* and of the msgspec integration of adaptix:                              *)
(*   integrations/msgspec/native.py                                        *)
(*     NativeMsgspecProvider (_skip_omitted, provide_loader and the two    *)
(*     loaders it returns).                                                *)
(* The helpers imported from .basic_gen and the Mediator are not part of   *)
(* the sources at hand; they are modelled from the specification text.     *)
(***************************************************************************)
EXTENDS Integers, Sequences, FiniteSets, TLC

VARIABLES
    stack,        \* activations of _provide_loader, innermost last
    failure,      \* the exception that ended the top-level request, or NoError
    result,       \* the loader returned for the top-level request, or NoLoader
    nextId,       \* identity of the next object allocated (VarBinder, namespace)
    placeholder,  \* per model type: forward-reference cell of the mediator
    memo,         \* per model type: the Shape/Crown the providers answered with
    history,      \* finished or aborted activations (ghost, for the properties)
    native        \* the NativeMsgspecProvider, the loader it returned, its last call

vars == <<stack, failure, result, nextId, placeholder, memo, history, native>>

----------------------------------------------------------------------------
(* Bounds of the input families.                                           *)

\* SpecV (validation of one Shape/Crown pair)
MaxFields == 2
MaxDepth == 2
\* Spec (whole builds, nested through the mediator)
MaxBuildFields == 2
MaxStack == 3

FieldNames == <<"a", "b", "c", "d">>

RECURSIVE SeqOfSet(_)
\* the indices of I in increasing order
SeqOfSet(I) ==
    IF I = {} THEN <<>>
    ELSE LET m == CHOOSE x \in I : \A y \in I : x <= y
         IN <<m>> \o SeqOfSet(I \ {m})

Range(s) == {s[i] : i \in DOMAIN s}

----------------------------------------------------------------------------
(* Data model: InputFigure (Shape), crowns, InputNameMapping.               *)

ModelTypes == {"A", "B"}
\* the type the facade is asked to load
RootType == "A"
PrimitiveTypes == {"int"}

\* figure.extra: None | ExtraKwargs-like collecting policy | ExtraTargets(fields)
ExtraNone == [kind |-> "None", fields |-> {}]
ExtraCollect == [kind |-> "Collect", fields |-> {}]
ExtraTargets(S) == [kind |-> "Targets", fields |-> S]

InputField(n, req, tp) == [name |-> n, is_required |-> req, type |-> tp]

InputFigure(fs, ex) == [fields |-> fs, extra |-> ex]

\* crowns: Leaf(field), DictCrown(map, extra-target), ListCrown(map, extra-target)
FieldCrown(n) == [kind |-> "field", name |-> n, map |-> <<>>, extra |-> FALSE]
DictCrown(m, ex) == [kind |-> "dict", name |-> "", map |-> m, extra |-> ex]
ListCrown(m, ex) == [kind |-> "list", name |-> "", map |-> m, extra |-> ex]

InputNameMapping(c) == [crown |-> c]

FieldNameSet(figure) == {figure.fields[i].name : i \in DOMAIN figure.fields}

----------------------------------------------------------------------------
(* Helpers of .basic_gen, modelled from the specification.                 *)

RECURSIVE collect_used_direct_fields(_)
\* the names of the Leaves of a crown
collect_used_direct_fields(crown) ==
    IF crown.kind = "field" THEN {crown.name}
    ELSE UNION {collect_used_direct_fields(crown.map[i]) : i \in DOMAIN crown.map}

\* "the set of Fields with no corresponding Leaf in the Crown"
get_skipped_fields(figure, name_mapping) ==
    FieldNameSet(figure) \ collect_used_direct_fields(name_mapping.crown)

\* "the reduced Shape after removing Fields explicitly excluded by the mapping"
strip_figure(figure, skipped_fields) ==
    [figure EXCEPT !.fields =
        SelectSeq(figure.fields, LAMBDA f : f.name \notin skipped_fields)]

RECURSIVE has_collect_policy(_)
\* "the Crown declares any extra-target"
has_collect_policy(crown) ==
    IF crown.kind = "field" THEN FALSE
    ELSE crown.extra \/ \E i \in DOMAIN crown.map : has_collect_policy(crown.map[i])

\* the extra-target fields of the Shape that occur as a Leaf of the Crown
get_extra_targets_at_crown(figure, name_mapping) ==
    IF figure.extra.kind = "Targets"
    THEN figure.extra.fields \cap collect_used_direct_fields(name_mapping.crown)
    ELSE {}

RECURSIVE get_optional_fields_at_list_crown(_, _)
\* "for every ListCrown position occupied by a Leaf referencing an optional
\*  Field, collect the field name"
get_optional_fields_at_list_crown(fields_map, crown) ==
    IF crown.kind = "dict" THEN
        UNION {get_optional_fields_at_list_crown(fields_map, crown.map[i]) :
                  i \in DOMAIN crown.map}
    ELSE IF crown.kind = "list" THEN
        UNION {IF crown.map[i].kind = "field"
               THEN (IF ~fields_map[crown.map[i].name].is_required
                     THEN {crown.map[i].name} ELSE {})
               ELSE get_optional_fields_at_list_crown(fields_map, crown.map[i]) :
                  i \in DOMAIN crown.map}
    ELSE {}

----------------------------------------------------------------------------
(* BuiltinInputExtractionMaker._process_figure and ._validate_params.      *)

NoError == [kind |-> "none", list |-> <<>>, names |-> {}]
ValueError(k, l, s) == [kind |-> k, list |-> l, names |-> s]

Raised(e) == [raised |-> TRUE, error |-> e, value |-> InputFigure(<<>>, ExtraNone)]
Returned(v) == [raised |-> FALSE, error |-> NoError, value |-> v]

\* (variant: the requiredness test is dropped)
skipped_fields_any(figure, skipped_fields) ==
    LET sel == SelectSeq(figure.fields, LAMBDA f : f.name \in skipped_fields)
    IN [i \in DOMAIN sel |-> sel[i].name]

skipped_required_fields(figure, skipped_fields) ==
    LET sel == SelectSeq(figure.fields,
                         LAMBDA f : f.is_required /\ f.name \in skipped_fields)
    IN [i \in DOMAIN sel |-> sel[i].name]

process_figure(figure, name_mapping) ==
    LET skipped_fields == get_skipped_fields(figure, name_mapping)
        skipped_required == skipped_required_fields(figure, skipped_fields)
    IN IF skipped_required # <<>>
       THEN Raised(ValueError("SkippedRequired", skipped_required, {}))
       ELSE Returned(strip_figure(figure, skipped_fields))

fields_map_of(figure) ==
    [n \in FieldNameSet(figure) |->
        CHOOSE f \in Range(figure.fields) : f.name = n]

\* (variant: the optional-at-list check is missing)
validate_params_without_list_check(figure, processed_figure, name_mapping) ==
    IF figure.extra.kind = "None" /\ has_collect_policy(name_mapping.crown)
    THEN ValueError("CollectWithoutExtra", <<>>, {})
    ELSE LET extra_targets_at_crown == get_extra_targets_at_crown(figure, name_mapping)
         IN IF extra_targets_at_crown # {}
            THEN ValueError("ExtraTargetsAtCrown", <<>>, extra_targets_at_crown)
            ELSE NoError

\* (variant: the test `figure.extra is None` is dropped)
validate_params_any_policy(figure, processed_figure, name_mapping) ==
    IF has_collect_policy(name_mapping.crown)
    THEN ValueError("CollectWithoutExtra", <<>>, {})
    ELSE LET extra_targets_at_crown == get_extra_targets_at_crown(figure, name_mapping)
         IN IF extra_targets_at_crown # {}
            THEN ValueError("ExtraTargetsAtCrown", <<>>, extra_targets_at_crown)
            ELSE LET optional_fields_at_list_crown ==
                         get_optional_fields_at_list_crown(
                             fields_map_of(processed_figure), name_mapping.crown)
                 IN IF optional_fields_at_list_crown # {}
                    THEN ValueError("OptionalAtListCrown", <<>>,
                                    optional_fields_at_list_crown)
                    ELSE NoError

\* (variant: the extra-targets check raises for every Shape with extra targets)
validate_params_targets_always(figure, processed_figure, name_mapping) ==
    IF figure.extra.kind = "None" /\ has_collect_policy(name_mapping.crown)
    THEN ValueError("CollectWithoutExtra", <<>>, {})
    ELSE IF figure.extra.kind = "Targets"
         THEN ValueError("ExtraTargetsAtCrown", <<>>, figure.extra.fields)
         ELSE LET optional_fields_at_list_crown ==
                      get_optional_fields_at_list_crown(
                          fields_map_of(processed_figure), name_mapping.crown)
              IN IF optional_fields_at_list_crown # {}
                 THEN ValueError("OptionalAtListCrown", <<>>,
                                 optional_fields_at_list_crown)
                 ELSE NoError

\* (variant: the optional-at-list check runs first)
validate_params_list_check_first(figure, processed_figure, name_mapping) ==
    LET optional_fields_at_list_crown ==
            get_optional_fields_at_list_crown(
                fields_map_of(processed_figure), name_mapping.crown)
    IN IF optional_fields_at_list_crown # {}
       THEN ValueError("OptionalAtListCrown", <<>>, optional_fields_at_list_crown)
       ELSE IF figure.extra.kind = "None" /\ has_collect_policy(name_mapping.crown)
       THEN ValueError("CollectWithoutExtra", <<>>, {})
       ELSE LET extra_targets_at_crown ==
                    get_extra_targets_at_crown(figure, name_mapping)
            IN IF extra_targets_at_crown # {}
               THEN ValueError("ExtraTargetsAtCrown", <<>>, extra_targets_at_crown)
               ELSE NoError

validate_params(figure, processed_figure, name_mapping) ==
    IF figure.extra.kind = "None" /\ has_collect_policy(name_mapping.crown)
    THEN ValueError("CollectWithoutExtra", <<>>, {})
    ELSE LET extra_targets_at_crown == get_extra_targets_at_crown(figure, name_mapping)
         IN IF extra_targets_at_crown # {}
            THEN ValueError("ExtraTargetsAtCrown", <<>>, extra_targets_at_crown)
            ELSE LET optional_fields_at_list_crown ==
                         get_optional_fields_at_list_crown(
                             fields_map_of(processed_figure), name_mapping.crown)
                 IN IF optional_fields_at_list_crown # {}
                    THEN ValueError("OptionalAtListCrown", <<>>,
                                    optional_fields_at_list_crown)
                    ELSE NoError

----------------------------------------------------------------------------
(* Input families: the Shapes and Crowns the providers may answer with.    *)

FieldTypes == ModelTypes \cup PrimitiveTypes

\* all Shapes of n fields named FieldNames[1..n]; the first field's type is
\* drawn from tps, the others are primitive; an extra target is one of the
\* fields at the positions tgt
FiguresOf(n, tps, tgt) ==
    LET extras == {ExtraNone, ExtraCollect} \cup
                  {ExtraTargets({FieldNames[i]}) : i \in tgt \cap 1..n}
    IN {InputFigure([i \in 1..n |-> InputField(FieldNames[i], req[i], tp[i])], ex) :
            req \in [1..n -> BOOLEAN],
            tp \in {t \in [1..n -> tps \cup PrimitiveTypes] :
                       \A i \in 2..n : t[i] \in PrimitiveTypes},
            ex \in extras}

LeafSeq(I) == LET s == SeqOfSet(I) IN [i \in DOMAIN s |-> FieldCrown(FieldNames[s[i]])]

RECURSIVE CrownsOver(_, _)
\* container crowns of depth <= d whose Leaves reference fields of I, each at
\* most once: the Leaf children first, then at most one nested container
CrownsOver(I, d) ==
    UNION {
        LET subs == IF d <= 1 THEN {<<>>}
                    ELSE {<<>>} \cup {<<c>> : c \in CrownsOver(I \ L, d - 1)}
        IN {[kind |-> k, name |-> "", map |-> LeafSeq(L) \o sub, extra |-> ex] :
                k \in {"dict", "list"}, ex \in BOOLEAN, sub \in subs}
        : L \in SUBSET I}

CrownsFor(figure, d) == CrownsOver(DOMAIN figure.fields, d)

\* the family checked by SpecV
AllFigures == UNION {FiguresOf(n, PrimitiveTypes, 1..n) : n \in 0..MaxFields}

\* the family the providers draw from during whole builds
BuildFigures == UNION {FiguresOf(n, FieldTypes, {n}) : n \in 0..MaxBuildFields}
BuildCrowns(figure) == CrownsFor(figure, 1)

----------------------------------------------------------------------------
(* Activations of ModelLoaderProvider._provide_loader.                      *)

NoFigure == InputFigure(<<>>, ExtraNone)
NoCrown == DictCrown(<<>>, FALSE)
NoGen == [made |-> FALSE, figure |-> NoFigure, crown |-> NoCrown, loaders |-> {}]
NoBuilder == [run |-> FALSE, binder |-> 0, namespace |-> 0, fields |-> {}]
NoCompiled == [done |-> FALSE, hook |-> "", binder |-> 0, namespace |-> 0,
               builders |-> <<>>]

NewFrame(tp) ==
    [type |-> tp, pc |-> "figure", status |-> "running", requests |-> <<>>,
     figure |-> NoFigure, name_mapping |-> InputNameMapping(NoCrown),
     processed_figure |-> NoFigure, pending |-> 1, field_loaders |-> <<>>,
     extraction_gen |-> NoGen, creation_gen |-> NoGen,
     code_gen_hook |-> "", binder |-> 0, ctx_namespace |-> 0,
     extraction_code_builder |-> NoBuilder, creation_code_builder |-> NoBuilder,
     compiled |-> NoCompiled, error |-> NoError, hook_outcome |-> ""]

NoLoader == [type |-> "", kind |-> "none"]
Loader(tp, k) == [type |-> tp, kind |-> k]

NoMemo == [has_figure |-> FALSE, figure |-> NoFigure,
           has_crown |-> FALSE, crown |-> NoCrown]

Top == stack[Len(stack)]
Running == stack # <<>> /\ failure = NoError
SetTop(f) == [stack EXCEPT ![Len(stack)] = f]

\* an exception nobody catches: every activation on the stack is left
Abort(f, e) ==
    /\ failure' = e
    /\ history' = history \o
          [i \in 1..Len(stack) |->
              IF i = Len(stack) THEN [f EXCEPT !.status = "raised", !.error = e]
              ELSE [stack[i] EXCEPT !.status = "propagated", !.error = e]]
    /\ stack' = <<>>

\* statement order of BuiltinInputExtractionMaker.__call__ followed by
\* ModelLoaderProvider._provide_loader
pc_after_late_validation(pc) ==
    CASE pc = "figure" -> "name_mapping"
      [] pc = "name_mapping" -> "process"
      [] pc = "process" -> "field_loaders"
      [] pc = "field_loaders" -> "validate"
      [] pc = "validate" -> "make_gens"
      [] pc = "make_gens" -> "hook"
      [] pc = "hook" -> "binder"
      [] pc = "binder" -> "extraction"
      [] pc = "extraction" -> "creation"
      [] pc = "creation" -> "compile"
      [] OTHER -> "done"

pc_after(pc) ==
    CASE pc = "figure" -> "name_mapping"
      [] pc = "name_mapping" -> "process"
      [] pc = "process" -> "validate"
      [] pc = "validate" -> "field_loaders"
      [] pc = "field_loaders" -> "make_gens"
      [] pc = "make_gens" -> "hook"
      [] pc = "hook" -> "binder"
      [] pc = "binder" -> "extraction"
      [] pc = "extraction" -> "creation"
      [] pc = "creation" -> "compile"
      [] OTHER -> "done"

\* the statement after `from`; a comprehension over no fields is passed over
Advance(f, from) ==
    LET n == pc_after(from)
    IN [f EXCEPT !.pc = IF n = "field_loaders"
                           /\ f.pending > Len(f.processed_figure.fields)
                        THEN pc_after(n) ELSE n]

----------------------------------------------------------------------------
(* NativeMsgspecProvider: its data and the bodies of its functions.        *)

\* SpecN (loaders of the msgspec provider)
MaxParams == 3
MaxData == 1

\* the keys native_msgspec gives conversion_params
ParamNames == <<"builtin_types", "str_keys", "strict", "from_attributes", "dec_hook">>

\* the marker of a parameter that was not given
Omitted == "Omitted"

\* a parameter is omitted, or given with a false or with a true value
ParamValues == {Omitted, "False", "True"}

\* the mappings a provider is constructed with: the first n keys, n <= MaxParams
ConversionParams ==
    UNION {[{ParamNames[i] : i \in 1..n} -> ParamValues] : n \in 0..MaxParams}

\* the values a loader is called with
Data == 0..MaxData

\* request.last_loc.type
RequestTypes == {"int", "str"}

\* _skip_omitted: {k: v for k, v in mapping.items() if v != Omitted()}
skip_omitted(mapping) ==
    [k \in {x \in DOMAIN mapping : mapping[x] # Omitted} |-> mapping[k]]

\* what a call of msgspec.convert, or of a loader, ends with
ReturnValue(v) == [kind |-> "return", value |-> v, exc |-> "none", cause |-> "none"]
Raise(e, c) == [kind |-> "raise", value |-> 0, exc |-> e, cause |-> c]
NoOutcome == [kind |-> "none", value |-> 0, exc |-> "none", cause |-> "none"]

\* failures of msgspec.convert other than msgspec.ValidationError
OtherErrors == {"TypeError", "DecodeError"}

\* msgspec.convert(data, type=tp, **kwargs) is code of the msgspec library: any
\* of its outcomes may follow any call
ConvertOutcomes(data, tp, kwargs) ==
    {ReturnValue(v) : v \in Data} \cup
    {Raise(e, "none") : e \in {"ValidationError"} \cup OtherErrors}

\* one call of msgspec.convert as the loader made it
ConvertCall(data, tp, kwargs, out) ==
    [made |-> TRUE, data |-> data, type |-> tp, kwargs |-> kwargs, outcome |-> out]

NoConvertCall ==
    [made |-> FALSE, data |-> 0, type |-> "none", kwargs |-> <<>>, outcome |-> NoOutcome]

\* (variant: except Exception)
native_msgspec_loader_catch_all(out) ==
    IF out.kind = "raise" THEN Raise("LoadError", out.exc) ELSE out

\* try: return msgspec.convert(data, type=..., **conversion_params)
\* except msgspec.ValidationError as e: raise LoadError() from e
native_msgspec_loader(out) ==
    IF out.kind = "raise" /\ out.exc = "ValidationError"
    THEN Raise("LoadError", out.exc)
    ELSE out

\* try: return msgspec.convert(data, type=...)
\* except msgspec.ValidationError as e: raise LoadError() from e
native_msgspec_loader_no_params(out) ==
    IF out.kind = "raise" /\ out.exc = "ValidationError"
    THEN Raise("LoadError", out.exc)
    ELSE out

\* the closure provide_loader returns: its name, and what it closes over
NativeLoader(name, tp, conversion_params) ==
    [name |-> name, type |-> tp, conversion_params |-> conversion_params]

NoNativeLoader == NativeLoader("none", "none", <<>>)

\* NativeMsgspecProvider(conversion_params, ...), the loader it provided last
\* and the last call of that loader
NativeMsgspecProvider(conversion_params) ==
    [constructed |-> TRUE, conversion_params |-> conversion_params,
     loader |-> NoNativeLoader, data |-> 0, convert |-> NoConvertCall,
     outcome |-> NoOutcome]

NoProvider ==
    [constructed |-> FALSE, conversion_params |-> <<>>,
     loader |-> NoNativeLoader, data |-> 0, convert |-> NoConvertCall,
     outcome |-> NoOutcome]

----------------------------------------------------------------------------
(* The steps of one build.                                                 *)

Init ==
    /\ stack = <<>>
    /\ failure = NoError
    /\ result = NoLoader
    /\ nextId = 1
    /\ placeholder = [t \in ModelTypes |-> [installed |-> 0, patched |-> 0]]
    /\ memo = [t \in ModelTypes |-> NoMemo]
    /\ history = <<>>
    /\ native = NoProvider

InProgress(tp) == placeholder[tp].installed > placeholder[tp].patched

\* (variant: no forward reference is looked up)
MediatorAlwaysStartsBuild(tp) == TRUE

\* Mediator: a LoaderRequest for a model type that is not under construction
\* installs the forward-reference cell and runs the provider
MediatorStartsBuild(tp) == ~InProgress(tp)

StartBuild(tp, callers) ==
    /\ Len(callers) < MaxStack
    /\ stack' = Append(callers, NewFrame(tp))
    /\ placeholder' = [placeholder EXCEPT ![tp].installed = @ + 1]

\* the facade asks for the loader of a model type
Request ==
    /\ stack = <<>> /\ failure = NoError /\ result = NoLoader
    /\ UNCHANGED native
    /\ StartBuild(RootType, stack)
    /\ UNCHANGED <<failure, result, nextId, memo, history>>

\* figure = mediator.provide(InputFigureRequest(type=request.type))
FetchFigure ==
    /\ Running /\ Top.pc = "figure"
    /\ UNCHANGED native
    /\ \E fig \in (IF memo[Top.type].has_figure THEN {memo[Top.type].figure}
                   ELSE BuildFigures) :
         /\ stack' = SetTop([Top EXCEPT !.figure = fig,
                                        !.requests = Append(@, "InputFigureRequest"),
                                        !.pc = pc_after("figure")])
         /\ memo' = [memo EXCEPT ![Top.type].has_figure = TRUE,
                                 ![Top.type].figure = fig]
    /\ UNCHANGED <<failure, result, nextId, placeholder, history>>

\* name_mapping = mediator.provide(InputNameMappingRequest(type, figure))
FetchNameMapping ==
    /\ Running /\ Top.pc = "name_mapping"
    /\ UNCHANGED native
    /\ \E c \in (IF memo[Top.type].has_crown THEN {memo[Top.type].crown}
                 ELSE BuildCrowns(Top.figure)) :
         /\ stack' = SetTop([Top EXCEPT !.name_mapping = InputNameMapping(c),
                                        !.requests = Append(@, "InputNameMappingRequest"),
                                        !.pc = pc_after("name_mapping")])
         /\ memo' = [memo EXCEPT ![Top.type].has_crown = TRUE,
                                 ![Top.type].crown = c]
    /\ UNCHANGED <<failure, result, nextId, placeholder, history>>

\* processed_figure = self._process_figure(figure, name_mapping)
ProcessFigure ==
    /\ Running /\ Top.pc = "process"
    /\ UNCHANGED native
    /\ LET r == process_figure(Top.figure, Top.name_mapping)
       IN IF r.raised
          THEN Abort(Top, r.error) /\ UNCHANGED <<result>>
          ELSE /\ stack' = SetTop(Advance([Top EXCEPT !.processed_figure = r.value],
                                           "process"))
               /\ UNCHANGED <<failure, result, history>>
    /\ UNCHANGED <<nextId, placeholder, memo>>

\* self._validate_params(figure, processed_figure, name_mapping)
ValidateParams ==
    /\ Running /\ Top.pc = "validate"
    /\ UNCHANGED native
    /\ LET e == validate_params(Top.figure, Top.processed_figure, Top.name_mapping)
       IN IF e # NoError
          THEN Abort(Top, e) /\ UNCHANGED <<result>>
          ELSE /\ stack' = SetTop(Advance(Top, "validate"))
               /\ UNCHANGED <<failure, result, history>>
    /\ UNCHANGED <<nextId, placeholder, memo>>

\* the caller of a nested provide receives the loader of its pending field
Deliver(f, loader) ==
    LET field == f.processed_figure.fields[f.pending]
    IN [f EXCEPT !.field_loaders = @ @@ (field.name :> loader),
                 !.pending = @ + 1,
                 !.pc = IF f.pending + 1 > Len(f.processed_figure.fields)
                        THEN pc_after("field_loaders") ELSE @]

\* one iteration of the field_loaders comprehension:
\* mediator.provide(LoaderFieldRequest(field=field, type=field.type))
ProvideFieldLoader ==
    /\ Running /\ Top.pc = "field_loaders"
    /\ UNCHANGED native
    /\ Top.pending <= Len(Top.processed_figure.fields)
    /\ LET field == Top.processed_figure.fields[Top.pending]
           asked == [Top EXCEPT !.requests = Append(@, "LoaderFieldRequest")]
       IN IF field.type \in PrimitiveTypes
          THEN /\ stack' = SetTop(Deliver(asked, Loader(field.type, "primitive")))
               /\ UNCHANGED placeholder
          ELSE IF MediatorStartsBuild(field.type)
          THEN StartBuild(field.type, SetTop(asked))
          ELSE /\ stack' = SetTop(Deliver(asked, Loader(field.type, "placeholder")))
               /\ UNCHANGED placeholder
    /\ UNCHANGED <<failure, result, nextId, memo, history>>

\* the Shape handed to the generators
figure_for_generators(f) == f.figure

\* extraction_gen = self._create_extraction_gen(request, figure, name_mapping,
\* field_loaders); return extraction_gen, figure;
\* creation_gen = self._creation_maker(mediator, request, figure)
MakeGenerators ==
    /\ Running /\ Top.pc = "make_gens"
    /\ UNCHANGED native
    /\ stack' = SetTop([Top EXCEPT
           !.extraction_gen = [made |-> TRUE, figure |-> figure_for_generators(Top),
                               crown |-> Top.name_mapping.crown,
                               loaders |-> DOMAIN Top.field_loaders],
           !.creation_gen = [made |-> TRUE, figure |-> figure_for_generators(Top),
                             crown |-> NoCrown, loaders |-> {}],
           !.pc = pc_after("make_gens")])
    /\ UNCHANGED <<failure, result, nextId, placeholder, memo, history>>

HookOutcomes == {"Provided", "CannotProvide", "OtherError"}

\* (variant: CannotProvide is not caught)
hook_without_except(outcome) ==
    IF outcome = "Provided" THEN [raised |-> FALSE, hook |-> "provided_hook"]
    ELSE [raised |-> TRUE, hook |-> ""]

\* try: code_gen_hook = mediator.provide(CodeGenHookRequest())
\* except CannotProvide: code_gen_hook = stub_code_gen_hook
hook_after_request(outcome) ==
    IF outcome = "Provided" THEN [raised |-> FALSE, hook |-> "provided_hook"]
    ELSE IF outcome = "CannotProvide"
         THEN [raised |-> FALSE, hook |-> "stub_code_gen_hook"]
         ELSE [raised |-> TRUE, hook |-> ""]

RequestCodeGenHook ==
    /\ Running /\ Top.pc = "hook"
    /\ UNCHANGED native
    /\ \E outcome \in HookOutcomes :
         LET asked == [Top EXCEPT !.requests = Append(@, "CodeGenHookRequest"),
                                  !.hook_outcome = outcome]
             r == hook_after_request(outcome)
         IN IF r.raised
            THEN Abort(asked, ValueError("HookRequestFailed", <<>>, {}))
                 /\ UNCHANGED <<result>>
            ELSE /\ stack' = SetTop(Advance([asked EXCEPT !.code_gen_hook = r.hook],
                                            "hook"))
                 /\ UNCHANGED <<failure, result, history>>
    /\ UNCHANGED <<nextId, placeholder, memo>>

\* (variant: one module-level VarBinder serves every build)
get_shared_binder(id) == 1

\* binder = self._get_binder(); ctx_namespace = BuiltinContextNamespace()
get_binder(id) == id
new_namespace(id) == id + 1

MakeBinder ==
    /\ Running /\ Top.pc = "binder"
    /\ UNCHANGED native
    /\ stack' = SetTop(Advance([Top EXCEPT !.binder = get_binder(nextId),
                                           !.ctx_namespace = new_namespace(nextId)],
                               "binder"))
    /\ nextId' = nextId + 2
    /\ UNCHANGED <<failure, result, placeholder, memo, history>>

\* a generator called with (binder, ctx_namespace)
run_generator(gen, binder, namespace) ==
    [run |-> TRUE, binder |-> binder, namespace |-> namespace,
     fields |-> FieldNameSet(gen.figure)]

\* extraction_code_builder = extraction_gen(binder, ctx_namespace)
RunExtractionGen ==
    /\ Running /\ Top.pc = "extraction"
    /\ UNCHANGED native
    /\ Top.extraction_gen.made
    /\ stack' = SetTop(Advance([Top EXCEPT !.extraction_code_builder =
                        run_generator(Top.extraction_gen, Top.binder, Top.ctx_namespace)],
                      "extraction"))
    /\ UNCHANGED <<failure, result, nextId, placeholder, memo, history>>

\* creation_code_builder = creation_gen(binder, ctx_namespace)
RunCreationGen ==
    /\ Running /\ Top.pc = "creation"
    /\ UNCHANGED native
    /\ Top.creation_gen.made
    /\ stack' = SetTop(Advance([Top EXCEPT !.creation_code_builder =
                        run_generator(Top.creation_gen, Top.binder, Top.ctx_namespace)],
                      "creation"))
    /\ UNCHANGED <<failure, result, nextId, placeholder, memo, history>>

\* compile_closure_with_globals_capturing(compiler, code_gen_hook, binder,
\* namespace=ctx_namespace.dict, body_builders=[extraction, creation], ...)
compile_closure(f) ==
    [done |-> TRUE, hook |-> f.code_gen_hook, binder |-> f.binder,
     namespace |-> f.ctx_namespace,
     builders |-> <<f.extraction_code_builder, f.creation_code_builder>>]

\* Mediator: the finished unit is patched into the forward-reference cell
PatchPlaceholder(tp) == [placeholder EXCEPT ![tp].patched = @ + 1]

\* return compile_closure_with_globals_capturing(...): the activation ends and
\* its caller (a pending field of the outer build, or the facade) gets the loader
Compile ==
    /\ Running /\ Top.pc = "compile"
    /\ UNCHANGED native
    /\ LET done == [Top EXCEPT !.compiled = compile_closure(Top),
                               !.pc = "done", !.status = "returned"]
           loader == Loader(Top.type, "model")
           callers == SubSeq(stack, 1, Len(stack) - 1)
       IN /\ history' = Append(history, done)
          /\ placeholder' = PatchPlaceholder(Top.type)
          /\ IF callers = <<>>
             THEN stack' = <<>> /\ result' = loader
             ELSE /\ stack' = [callers EXCEPT ![Len(callers)] = Deliver(@, loader)]
                  /\ UNCHANGED result
    /\ UNCHANGED <<failure, nextId, memo>>

Next ==
    \/ Request
    \/ FetchFigure
    \/ FetchNameMapping
    \/ ProcessFigure
    \/ ValidateParams
    \/ ProvideFieldLoader
    \/ MakeGenerators
    \/ RequestCodeGenHook
    \/ MakeBinder
    \/ RunExtractionGen
    \/ RunCreationGen
    \/ Compile

Spec == Init /\ [][Next]_vars

----------------------------------------------------------------------------
(* Validation of one Shape/Crown pair, over the larger input family.       *)

InitV ==
    /\ \E fig \in AllFigures : \E c \in CrownsFor(fig, MaxDepth) :
         stack = <<[NewFrame("A") EXCEPT
                       !.figure = fig, !.name_mapping = InputNameMapping(c),
                       !.requests = <<"InputFigureRequest", "InputNameMappingRequest">>,
                       !.pc = "process"]>>
    /\ failure = NoError
    /\ result = NoLoader
    /\ nextId = 1
    /\ placeholder = [t \in ModelTypes |->
                        [installed |-> IF t = "A" THEN 1 ELSE 0, patched |-> 0]]
    /\ memo = [t \in ModelTypes |->
                 IF t = "A"
                 THEN [has_figure |-> TRUE, figure |-> stack[1].figure,
                       has_crown |-> TRUE, crown |-> stack[1].name_mapping.crown]
                 ELSE NoMemo]
    /\ history = <<>>
    /\ native = NoProvider

NextV == ProcessFigure \/ ValidateParams

SpecV == InitV /\ [][NextV]_vars

----------------------------------------------------------------------------
(* The loaders of NativeMsgspecProvider.                                   *)

build_vars == <<stack, failure, result, nextId, placeholder, memo, history>>

InitN ==
    /\ stack = <<>>
    /\ failure = NoError
    /\ result = NoLoader
    /\ nextId = 1
    /\ placeholder = [t \in ModelTypes |-> [installed |-> 0, patched |-> 0]]
    /\ memo = [t \in ModelTypes |-> NoMemo]
    /\ history = <<>>
    /\ \E cp \in ConversionParams : native = NativeMsgspecProvider(cp)

\* provide_loader(mediator, request)
provide_loader ==
    /\ native.constructed
    /\ \E tp \in RequestTypes :
         LET conversion_params == skip_omitted(native.conversion_params)
         IN native' = [native EXCEPT
               !.loader = IF DOMAIN conversion_params # {}
                          THEN NativeLoader("native_msgspec_loader", tp,
                                            conversion_params)
                          ELSE NativeLoader("native_msgspec_loader_no_params", tp,
                                            conversion_params),
               !.data = 0, !.convert = NoConvertCall, !.outcome = NoOutcome]
    /\ UNCHANGED build_vars

\* native_msgspec_loader(data)
CallLoader ==
    /\ native.loader.name = "native_msgspec_loader"
    /\ \E data \in Data :
         LET kwargs == native.loader.conversion_params
         IN \E out \in ConvertOutcomes(data, native.loader.type, kwargs) :
              native' = [native EXCEPT
                  !.data = data,
                  !.convert = ConvertCall(data, native.loader.type, kwargs, out),
                  !.outcome = native_msgspec_loader(out)]
    /\ UNCHANGED build_vars

\* native_msgspec_loader_no_params(data)
CallLoaderNoParams ==
    /\ native.loader.name = "native_msgspec_loader_no_params"
    /\ \E data \in Data :
         \E out \in ConvertOutcomes(data, native.loader.type, <<>>) :
              native' = [native EXCEPT
                  !.data = data,
                  !.convert = ConvertCall(data, native.loader.type, <<>>, out),
                  !.outcome = native_msgspec_loader_no_params(out)]
    /\ UNCHANGED build_vars

NextN == provide_loader \/ CallLoader \/ CallLoaderNoParams

SpecN == InitN /\ [][NextN]_vars

----------------------------------------------------------------------------
(* Vocabulary of the properties.                                           *)

AllFrames == history \o stack

ValidationKinds == {"SkippedRequired", "CollectWithoutExtra",
                    "ExtraTargetsAtCrown", "OptionalAtListCrown"}

RECURSIVE Nodes(_)
\* every node of a crown
Nodes(crown) == {crown} \cup UNION {Nodes(crown.map[i]) : i \in DOMAIN crown.map}

HasLeaf(crown, n) == \E x \in Nodes(crown) : x.kind = "field" /\ x.name = n

DeclaresExtraTarget(crown) == \E x \in Nodes(crown) : x.kind # "field" /\ x.extra

LeafAtListPosition(crown, n) ==
    \E x \in Nodes(crown) :
        /\ x.kind = "list"
        /\ \E i \in DOMAIN x.map : x.map[i].kind = "field" /\ x.map[i].name = n

\* required fields without a Leaf, in declaration order
RequiredWithoutLeaf(f) ==
    LET sel == SelectSeq(f.figure.fields,
                         LAMBDA fd : fd.is_required
                                     /\ ~HasLeaf(f.name_mapping.crown, fd.name))
    IN [i \in DOMAIN sel |-> sel[i].name]

OptionalAtList(f) ==
    {fd.name : fd \in {x \in Range(f.figure.fields) :
                          ~x.is_required
                          /\ LeafAtListPosition(f.name_mapping.crown, x.name)}}

ExtraWithoutPolicy(f) ==
    f.figure.extra.kind = "None" /\ DeclaresExtraTarget(f.name_mapping.crown)

TargetFieldsWithLeaf(f) ==
    IF f.figure.extra.kind = "Targets"
    THEN {n \in f.figure.extra.fields : HasLeaf(f.name_mapping.crown, n)}
    ELSE {}

RaisedHere(f) == f.status = "raised"

\* _process_figure has been run by this activation
Processed(f) ==
    \/ RaisedHere(f) /\ f.error.kind \in ValidationKinds
    \/ f.pc \notin {"figure", "name_mapping", "process"}

\* _process_figure and _validate_params have both been run (or one has raised)
Validated(f) ==
    \/ RaisedHere(f) /\ f.error.kind \in ValidationKinds
    \/ f.pc \notin {"figure", "name_mapping", "process", "validate"}

FailedWith(f, k) == RaisedHere(f) /\ f.error.kind = k

----------------------------------------------------------------------------
(* C2: the skipped-required check fails the build if and only if some      *)
(* required field has no Leaf in the Crown, and the failure then lists     *)
(* exactly the required fields without a Leaf, in declaration order;       *)
(* skipped optional fields alone never make it fail.                       *)
C2_SkippedRequired ==
    \A i \in DOMAIN AllFrames :
        LET f == AllFrames[i]
        IN Processed(f) =>
            /\ FailedWith(f, "SkippedRequired") <=> RequiredWithoutLeaf(f) # <<>>
            /\ FailedWith(f, "SkippedRequired") =>
                 /\ f.error.list = RequiredWithoutLeaf(f)
                 /\ failure = f.error

\* fields [a required, b optional], a Crown omitting a: exactly <<"a">>
C2_Witness ==
    \E i \in DOMAIN AllFrames :
        LET f == AllFrames[i]
        IN /\ Len(f.figure.fields) = 2
           /\ f.figure.fields[1].is_required /\ ~f.figure.fields[2].is_required
           /\ ~HasLeaf(f.name_mapping.crown, "a")
           /\ ~HasLeaf(f.name_mapping.crown, "b")
           /\ FailedWith(f, "SkippedRequired")
           /\ failure.list = <<"a">>

----------------------------------------------------------------------------
C4_AsStated ==
    \A i \in DOMAIN AllFrames :
        LET f == AllFrames[i]
        IN Validated(f) =>
            /\ ExtraWithoutPolicy(f) => FailedWith(f, "CollectWithoutExtra")
            /\ FailedWith(f, "CollectWithoutExtra") => f.figure.extra.kind = "None"

(* C4 amended: for every Shape whose policy is none and every Crown that   *)
(* passes the skipped-required check and declares an extra-target at any   *)
(* node, the build fails citing the extra-target conflict; under another   *)
(* policy the build never fails with that error, and a pair whose only     *)
(* peculiarity is the extra-target builds without failure.                 *)
C4_ExtraWithoutPolicy ==
    \A i \in DOMAIN AllFrames :
        LET f == AllFrames[i]
        IN Validated(f) =>
            /\ (ExtraWithoutPolicy(f) /\ RequiredWithoutLeaf(f) = <<>>) =>
                 FailedWith(f, "CollectWithoutExtra") /\ failure = f.error
            /\ FailedWith(f, "CollectWithoutExtra") => ExtraWithoutPolicy(f)
            /\ (/\ f.figure.extra.kind = "Collect"
                /\ DeclaresExtraTarget(f.name_mapping.crown)
                /\ RequiredWithoutLeaf(f) = <<>> /\ OptionalAtList(f) = {})
               => ~RaisedHere(f)

\* policy none, the extra-target declared at a nested node only
C4_Witness ==
    \E i \in DOMAIN AllFrames :
        LET f == AllFrames[i]
        IN /\ FailedWith(f, "CollectWithoutExtra")
           /\ ~f.name_mapping.crown.extra
           /\ f.figure.fields # <<>>

ViolatedCategories(f) ==
    (IF RequiredWithoutLeaf(f) # <<>> THEN {"SkippedRequired"} ELSE {})
    \cup (IF ExtraWithoutPolicy(f) THEN {"CollectWithoutExtra"} ELSE {})
    \cup (IF TargetFieldsWithLeaf(f) # {} THEN {"ExtraTargetsAtCrown"} ELSE {})
    \cup (IF OptionalAtList(f) # {} THEN {"OptionalAtListCrown"} ELSE {})

\* what an error reports of a category: its kind and complete offending set
Reports(e, f, k) ==
    /\ e.kind = k
    /\ k = "SkippedRequired" => e.list = RequiredWithoutLeaf(f)
    /\ k = "ExtraTargetsAtCrown" => e.names = TargetFieldsWithLeaf(f)
    /\ k = "OptionalAtListCrown" => e.names = OptionalAtList(f)

(* C6 as stated: the single failure of a build surfaces the complete       *)
(* offending set of every violated category, also when the pair violates   *)
(* more than one category.                                                  *)
C6_AsStated ==
    \A i \in DOMAIN AllFrames :
        LET f == AllFrames[i]
        IN Validated(f) =>
            \A k \in ViolatedCategories(f) : Reports(f.error, f, k)

FirstViolated(f) ==
    IF RequiredWithoutLeaf(f) # <<>> THEN "SkippedRequired"
    ELSE IF ExtraWithoutPolicy(f) THEN "CollectWithoutExtra"
    ELSE IF TargetFieldsWithLeaf(f) # {} THEN "ExtraTargetsAtCrown"
    ELSE "OptionalAtListCrown"

(* C6 amended: the checks run in order and the first violated one raises:  *)
(* the single failure reports the complete offending set of the first      *)
(* violated category (skipped required fields, extra-target without        *)
(* policy, extra-target fields at the crown, optional fields at list       *)
(* positions) and nothing of the categories after it.                      *)
C6_FirstCategoryComplete ==
    \A i \in DOMAIN AllFrames :
        LET f == AllFrames[i]
        IN Validated(f) =>
            IF ViolatedCategories(f) = {} THEN ~RaisedHere(f)
            ELSE /\ RaisedHere(f) /\ failure = f.error
                 /\ Reports(f.error, f, FirstViolated(f))
                 /\ f.error.kind # "SkippedRequired" => f.error.list = <<>>
                 /\ f.error.kind \in {"SkippedRequired", "CollectWithoutExtra"}
                       => f.error.names = {}

\* two categories violated at once, the later one with two offenders
C6_Witness ==
    \E i \in DOMAIN AllFrames :
        LET f == AllFrames[i]
        IN /\ Validated(f)
           /\ ViolatedCategories(f) = {"CollectWithoutExtra", "OptionalAtListCrown"}
           /\ FailedWith(f, "CollectWithoutExtra")
           /\ Cardinality(OptionalAtList(f)) = 2

----------------------------------------------------------------------------
(* C1: whenever a validation check on the Shape/Crown pair fails, the      *)
(* build ends in failure having issued only the Shape and the Crown        *)
(* request: no LoaderFieldRequest, no request for the code-generation      *)
(* hook, no generator made or run, nothing compiled.                       *)
C1_ValidationFailsFast ==
    \A i \in DOMAIN AllFrames :
        LET f == AllFrames[i]
        IN (RaisedHere(f) /\ f.error.kind \in ValidationKinds) =>
            /\ failure = f.error /\ result = NoLoader /\ stack = <<>>
            /\ f.requests = <<"InputFigureRequest", "InputNameMappingRequest">>
            /\ f.field_loaders = <<>>
            /\ f.hook_outcome = "" /\ f.code_gen_hook = ""
            /\ ~f.extraction_gen.made /\ ~f.creation_gen.made
            /\ ~f.extraction_code_builder.run /\ ~f.creation_code_builder.run
            /\ ~f.compiled.done

\* the last of the checks fails in a build whose Shape has a model-typed field
C1_Witness ==
    \E i \in DOMAIN AllFrames :
        LET f == AllFrames[i]
        IN /\ FailedWith(f, "OptionalAtListCrown")
           /\ failure = f.error
           /\ \E j \in DOMAIN f.processed_figure.fields :
                 f.processed_figure.fields[j].type \in ModelTypes

(* C7: the code-generation hook is optional: when the request for it ends  *)
(* with CannotProvide the build goes on with stub_code_gen_hook and        *)
(* compiles with it; when the request succeeds the provided hook is the    *)
(* one passed to compilation; any other failure of the request aborts the  *)
(* build.                                                                   *)
C7_HookOptional ==
    \A i \in DOMAIN AllFrames :
        LET f == AllFrames[i]
        IN /\ f.hook_outcome = "CannotProvide" =>
                /\ f.code_gen_hook = "stub_code_gen_hook"
                /\ f.error = NoError
                /\ f.status = "running" => f.pc \in {"binder", "extraction",
                                                     "creation", "compile"}
                /\ f.status = "returned" =>
                      f.compiled.done /\ f.compiled.hook = "stub_code_gen_hook"
           /\ f.hook_outcome = "Provided" =>
                /\ f.code_gen_hook = "provided_hook"
                /\ f.error = NoError
                /\ f.status = "returned" =>
                      f.compiled.done /\ f.compiled.hook = "provided_hook"
           /\ f.hook_outcome = "OtherError" =>
                /\ FailedWith(f, "HookRequestFailed")
                /\ failure = f.error /\ result = NoLoader
                /\ ~f.compiled.done /\ f.code_gen_hook = ""
           /\ f.compiled.done => f.hook_outcome \in {"CannotProvide", "Provided"}

\* the hook request ended with CannotProvide and the loader was produced
C7_Witness ==
    /\ result = Loader(RootType, "model")
    /\ \E i \in DOMAIN history :
          /\ history[i].type = RootType
          /\ history[i].hook_outcome = "CannotProvide"
          /\ history[i].compiled.hook = "stub_code_gen_hook"

\* how many activations of the sequence are of type t, with a status of sts
CountOf(seq, t, sts) ==
    Cardinality({i \in DOMAIN seq : seq[i].type = t /\ seq[i].status \in sts})

Statuses == {"running", "returned", "raised", "propagated"}

TypeOfField(f, n) == fields_map_of(f.processed_figure)[n].type

\* one build per type under construction, one placeholder per build, patched
\* once when the build returns; a field of a type under construction holds the
\* placeholder
C8_NoRebuild ==
    /\ \A i, j \in DOMAIN stack : stack[i].type = stack[j].type => i = j
    /\ Len(stack) <= Cardinality(ModelTypes)
    /\ \A t \in ModelTypes :
          /\ placeholder[t].installed = CountOf(AllFrames, t, Statuses)
          /\ placeholder[t].patched = CountOf(history, t, {"returned"})
          /\ placeholder[t].installed - placeholder[t].patched
                - CountOf(history, t, {"raised", "propagated"})
                = CountOf(stack, t, Statuses)
    /\ \A i \in DOMAIN stack :
          /\ InProgress(stack[i].type)
          /\ \A n \in DOMAIN stack[i].field_loaders :
                (\E j \in 1..i : stack[j].type = TypeOfField(stack[i], n))
                <=> stack[i].field_loaders[n].kind = "placeholder"

Finished == stack = <<>> /\ (result # NoLoader \/ failure # NoError)

\* the steps a build has left once its field loaders are resolved
TailSteps(pc) ==
    CASE pc = "make_gens" -> 6
      [] pc = "hook" -> 5
      [] pc = "binder" -> 4
      [] pc = "extraction" -> 3
      [] pc = "creation" -> 2
      [] pc = "compile" -> 1
      [] OTHER -> 0

\* the steps a build has left before its field loaders, those after included
HeadSteps(pc) ==
    CASE pc = "figure" -> 10
      [] pc = "name_mapping" -> 9
      [] pc = "process" -> 8
      [] pc = "validate" -> 7
      [] pc = "field_loaders" -> 6
      [] OTHER -> 0

RECURSIVE BuildCost(_)
\* the most steps a build started at nesting depth d can take: its own, and for
\* each field the request and a nested build, which no type under construction
\* gets
BuildCost(d) ==
    IF d > Cardinality(ModelTypes) THEN 0
    ELSE HeadSteps("figure") + MaxBuildFields * (1 + BuildCost(d + 1))

\* the steps the activation at depth i can still take or cause
FrameRank(i) ==
    LET f == stack[i]
        fields_left ==
            IF f.pc \in {"figure", "name_mapping", "process"} THEN MaxBuildFields
            ELSE Len(f.processed_figure.fields) - f.pending + 1
        \* the pending field of a caller is being served by the build above it
        unserved == IF i < Len(stack) THEN fields_left - 1 ELSE fields_left
    IN IF HeadSteps(f.pc) > 0
       THEN HeadSteps(f.pc) + unserved * (1 + BuildCost(i + 1))
       ELSE TailSteps(f.pc)

RECURSIVE SumRanks(_)
SumRanks(i) == IF i = 0 THEN 0 ELSE FrameRank(i) + SumRanks(i - 1)

\* a variant: no step leaves it as it is or raises it
Rank ==
    IF stack = <<>>
    THEN (IF Finished THEN 0 ELSE 1 + BuildCost(1))
    ELSE SumRanks(Len(stack))

C9_GeneratorsSeeResolvedFields ==
    \A i \in DOMAIN AllFrames :
        LET f == AllFrames[i]
        IN f.status = "returned" =>
            /\ DOMAIN f.field_loaders = FieldNameSet(f.processed_figure)
            /\ FieldNameSet(f.extraction_gen.figure) = DOMAIN f.field_loaders
            /\ FieldNameSet(f.creation_gen.figure) = DOMAIN f.field_loaders
            /\ f.extraction_code_builder.fields = DOMAIN f.field_loaders
            /\ f.creation_code_builder.fields = DOMAIN f.field_loaders

HasBinder(f) == f.binder # 0

(* C10: every build creates its own binder and namespace; within a build   *)
(* the same two objects go to the extraction generator, then the creation  *)
(* generator, then the compiler; no two builds share either object, a      *)
(* nested build included.                                                   *)
C10_BinderPerBuild ==
    /\ \A i \in DOMAIN AllFrames :
          LET f == AllFrames[i]
          IN /\ HasBinder(f) => f.ctx_namespace # 0 /\ f.binder # f.ctx_namespace
             /\ f.extraction_code_builder.run =>
                   /\ HasBinder(f)
                   /\ f.extraction_code_builder.binder = f.binder
                   /\ f.extraction_code_builder.namespace = f.ctx_namespace
             /\ f.creation_code_builder.run =>
                   /\ f.extraction_code_builder.run
                   /\ f.creation_code_builder.binder = f.binder
                   /\ f.creation_code_builder.namespace = f.ctx_namespace
             /\ f.compiled.done =>
                   /\ f.creation_code_builder.run
                   /\ f.compiled.binder = f.binder
                   /\ f.compiled.namespace = f.ctx_namespace
                   /\ f.compiled.builders =
                         <<f.extraction_code_builder, f.creation_code_builder>>
             /\ f.status = "returned" => f.compiled.done
    /\ \A i, j \in DOMAIN AllFrames :
          (i # j /\ HasBinder(AllFrames[i]) /\ HasBinder(AllFrames[j])) =>
             {AllFrames[i].binder, AllFrames[i].ctx_namespace}
                \cap {AllFrames[j].binder, AllFrames[j].ctx_namespace} = {}

\* a nested build has compiled with its objects and the outer build, which
\* was resolving its field loaders meanwhile, has run its generators
C10_Witness ==
    /\ \E i \in DOMAIN history :
          history[i].type # RootType /\ history[i].compiled.done
    /\ \E j \in DOMAIN stack :
          stack[j].type = RootType /\ stack[j].creation_code_builder.run

\* the parameters the provider was constructed with a value for
GivenParams ==
    {k \in DOMAIN native.conversion_params : native.conversion_params[k] # Omitted}

SignalsValidationError(out) == out.kind = "raise" /\ out.exc = "ValidationError"

FailsWithLoadError(out) == out.kind = "raise" /\ out.exc = "LoadError"

====
